---- MODULE Spec2Model ----
(***************************************************************************)
(* EpochManager of witnet-rust (core/src/actors/epoch_manager/mod.rs):     *)
(* the epoch clock (epoch_at, epoch_timestamp, time_to_next_checkpoint),   *)
(* the subscription registry and the self-rescheduling checkpoint monitor. *)
(*                                                                         *)
(* Integer widths are scaled down but keep the order of the Rust types:    *)
(*   u16 (period)  -> PeriodBits bits, unsigned                            *)
(*   u32 (Epoch)   -> EpochBits bits, unsigned                             *)
(*   i64 (seconds) -> TsBits bits, two's complement                        *)
(* with PeriodBits <= EpochBits < TsBits, so that Epoch::from(u16) and     *)
(* i64::from(Epoch) are lossless as in the source, and `as Epoch`          *)
(* truncates.                                                              *)
(***************************************************************************)
EXTENDS Integers, Sequences, FiniteSets, TLC

VARIABLES
    checkpoint_zero_timestamp,  \* Option<i64>
    checkpoints_period,         \* Option<u16>
    subscriptions_epoch,        \* BTreeMap<Epoch, Vec<subscription>>
    subscriptions_all,          \* Vec<subscription>
    last_checked_epoch,         \* Option<Epoch>
    overflow_checks,            \* build profile: TRUE = overflow panics, FALSE = wraps
    now_secs,                   \* wall clock, whole seconds
    now_nanos,                  \* wall clock, sub-second nanoseconds
    timers,                     \* pending run_later timers (their deadlines)
    panicked,                   \* the actor's thread has panicked
    sent,                       \* notifications sent by the latest firing, in order
    delivered,                  \* per subscription: notifications sent so far
    next_id,                    \* number of subscriptions registered so far
    firing,                     \* what the latest firing of the timer did
    call                        \* the latest call of a clock method and its result

vars == <<checkpoint_zero_timestamp, checkpoints_period, subscriptions_epoch,
          subscriptions_all, last_checked_epoch, overflow_checks, now_secs,
          now_nanos, timers, panicked, sent, delivered, next_id, firing, call>>

\* ------------------------------------------------------------------ bounds
PeriodBits == 2
EpochBits == 3
TsBits == 5

\* ------------------------------------------------------------- integer types
RECURSIVE Pow2(_)
Pow2(n) == IF n = 0 THEN 1 ELSE 2 * Pow2(n - 1)

U16Max == Pow2(PeriodBits) - 1
EpochMax == Pow2(EpochBits) - 1
I64Min == 0 - Pow2(TsBits - 1)
I64Max == Pow2(TsBits - 1) - 1

U16 == 0..U16Max
Epoch == 0..EpochMax
I64 == I64Min..I64Max

\* Two's complement wrap of a mathematical integer into i64.
WrapI64(x) == ((x - I64Min) % Pow2(TsBits)) + I64Min

\* Variant: a cast to the width of the period's type (`x as u16`).
AsEpochNarrow(x) == x % Pow2(PeriodBits)
\* `x as Epoch` for an i64 x: keeps the low bits.
AsEpoch(x) == x % Pow2(EpochBits)

\* ------------------------------------------------------------ Option, Result
None == [some |-> FALSE, v |-> 0]
Some(x) == [some |-> TRUE, v |-> x]

Ok(x) == [tag |-> "Ok", val |-> x, err |-> "none"]
Err(e, x) == [tag |-> "Err", val |-> x, err |-> e]
\* An arithmetic overflow in a build with overflow checks: the thread panics.
Panic == [tag |-> "Panic", val |-> 0, err |-> "attempt to subtract with overflow"]

UnknownEpochZero == Err("UnknownEpochZero", 0)
UnknownCheckpointPeriod == Err("UnknownCheckpointPeriod", 0)
CheckpointZeroInTheFuture(zero) == Err("CheckpointZeroInTheFuture", zero)
Overflow == Err("Overflow", 0)

\* a - b on i64: the exact difference when it fits; otherwise a panic (overflow
\* checks on) or the wrapped value (overflow checks off).
SubI64(a, b) ==
    IF a - b \in I64 THEN Ok(a - b)
    ELSE IF overflow_checks THEN Panic
    ELSE Ok(WrapI64(a - b))

\* u32::checked_mul
CheckedMul(a, b) == IF a * b <= EpochMax THEN Some(a * b) ELSE None

\* Variant: i64::wrapping_add.
CheckedAddWrapping(a, b) == Some(WrapI64(a + b))
\* i64::checked_add
CheckedAddI64(a, b) == IF a + b \in I64 THEN Some(a + b) ELSE None

\* --------------------------------------------------------------- EpochClock
\* Variant: the period is stored as given.
ClampPeriodNone(period) == period
\* set_period: a period of 0 is stored as 1.
ClampPeriod(period) == IF period = 0 THEN 1 ELSE period

\* epoch_at(&self, timestamp), self given by its two configuration fields.
epoch_at(zero, period, timestamp) ==
    IF ~zero.some THEN UnknownEpochZero
    ELSE IF ~period.some THEN UnknownCheckpointPeriod
    ELSE LET elapsed == SubI64(timestamp, zero.v) IN
         IF elapsed.tag = "Panic" THEN Panic
         ELSE IF elapsed.val < 0 THEN CheckpointZeroInTheFuture(zero.v)
         ELSE Ok(AsEpoch(elapsed.val) \div period.v)

\* epoch_timestamp(&self, epoch): period * epoch + zero with overflow checks.
\* The filter x <= Epoch::max_value() passes every Epoch value.
epoch_timestamp(zero, period, epoch) ==
    IF ~zero.some THEN UnknownEpochZero
    ELSE IF ~period.some THEN UnknownCheckpointPeriod
    ELSE LET prod == CheckedMul(period.v, epoch) IN
         IF ~prod.some \/ ~(prod.v <= EpochMax) THEN Overflow
         ELSE LET sum == CheckedAddI64(prod.v, zero.v) IN
              IF sum.some THEN Ok(sum.v) ELSE Overflow

\* ------------------------------------------------------- time and durations
NanosPerSec == 1000000000

\* Variant: the nanoseconds beyond one second are dropped, not carried over.
DurationNewNoCarry(secs, nanos) == [secs |-> secs, nanos |-> nanos % NanosPerSec]
\* Duration::new(secs, nanos): nanoseconds beyond one second carry over.
DurationNew(secs, nanos) ==
    [secs |-> secs + (nanos \div NanosPerSec), nanos |-> nanos % NanosPerSec]

\* Duration::from_secs
DurationFromSecs(secs) == [secs |-> secs, nanos |-> 0]

\* The instant `d` after the instant `t`.
AddTime(t, d) == DurationNew(t.secs + d.secs, t.nanos + d.nanos)

\* t1 is not after t2.
TimeLeq(t1, t2) == t1.secs < t2.secs \/ (t1.secs = t2.secs /\ t1.nanos <= t2.nanos)

\* time_to_next_checkpoint(&self) at wall time (secs_now, nanos_now).
time_to_next_checkpoint(zero, period, secs_now, nanos_now) ==
    LET current_epoch == epoch_at(zero, period, secs_now) IN
    IF current_epoch.tag # "Ok" THEN current_epoch
    ELSE IF current_epoch.val + 1 > EpochMax THEN Overflow
    ELSE LET next_checkpoint == epoch_timestamp(zero, period, current_epoch.val + 1) IN
         IF next_checkpoint.tag # "Ok" THEN next_checkpoint
         ELSE LET secs == SubI64(next_checkpoint.val, secs_now) IN
              IF secs.tag = "Panic" THEN Panic
              ELSE IF secs.val < 0 THEN Overflow
              ELSE Ok(DurationNew(secs.val, NanosPerSec - nanos_now))

\* Variant: a failure to compute the current epoch counts as epoch 0.
current_epoch_or_zero(zero, period) ==
    IF epoch_at(zero, period, now_secs).tag = "Err" THEN Ok(0)
    ELSE epoch_at(zero, period, now_secs)
\* Variant: the wall clock is read one second behind.
current_epoch_stale(zero, period) == epoch_at(zero, period, now_secs - 1)
\* current_epoch(&self): epoch_at of the wall clock's second.
current_epoch(zero, period) == epoch_at(zero, period, now_secs)

\* Variant: unwrap_or_default, a delay of nothing when time_to_next_checkpoint
\* fails.
MonitorDelayOrDefault(zero, period, secs_now, nanos_now) ==
    LET d == time_to_next_checkpoint(zero, period, secs_now, nanos_now) IN
    IF d.tag = "Ok" THEN d
    ELSE IF d.tag = "Panic" THEN Panic
    ELSE Ok(DurationFromSecs(0))
\* The delay checkpoint_monitor hands to run_later: time_to_next_checkpoint, or
\* one period when that fails.
MonitorDelay(zero, period, secs_now, nanos_now) ==
    LET d == time_to_next_checkpoint(zero, period, secs_now, nanos_now) IN
    IF d.tag = "Ok" THEN d
    ELSE IF d.tag = "Panic" THEN Panic
    ELSE Ok(DurationFromSecs(period.v))

\* ------------------------------------------------------------ notifications
Notification(sub, kind, epoch) == [sub |-> sub, kind |-> kind, checkpoint |-> epoch]

\* Variant: the notification carries the epoch after the one given.
SendSingleOffByOne(subscription, epoch) ==
    IF subscription.payload
    THEN <<Notification(subscription.id, "single", epoch + 1)>>
    ELSE <<>>
\* SingleEpochSubscription::send_notification: the payload is taken; without a
\* payload nothing is sent.
SendSingle(subscription, epoch) ==
    IF subscription.payload
    THEN <<Notification(subscription.id, "single", epoch)>>
    ELSE <<>>

\* Variant: the notification carries the epoch after the one given.
SendAllOffByOne(subscription, epoch) == <<Notification(subscription.id, "all", epoch + 1)>>
\* AllEpochSubscription::send_notification: the payload is cloned and sent.
SendAll(subscription, epoch) == <<Notification(subscription.id, "all", epoch)>>

RECURSIVE NotifyAll(_, _)
NotifyAll(subscriptions, epoch) ==
    IF subscriptions = <<>> THEN <<>>
    ELSE SendAll(Head(subscriptions), epoch) \o NotifyAll(Tail(subscriptions), epoch)

\* Variant: the subscriptions are notified from the last registered to the first.
RECURSIVE NotifySinglesReversed(_, _)
NotifySinglesReversed(subscriptions, epoch) ==
    IF subscriptions = <<>> THEN <<>>
    ELSE NotifySinglesReversed(Tail(subscriptions), epoch)
             \o SendSingle(Head(subscriptions), epoch)

RECURSIVE NotifySingles(_, _)
NotifySingles(subscriptions, epoch) ==
    IF subscriptions = <<>> THEN <<>>
    ELSE SendSingle(Head(subscriptions), epoch)
             \o NotifySingles(Tail(subscriptions), epoch)

\* ------------------------------------------------------ subscription registry
Min(S) == CHOOSE x \in S : \A y \in S : x <= y

\* The elements of a set of epochs in ascending order (BTreeMap iteration order).
RECURSIVE Ascending(_)
Ascending(S) == IF S = {} THEN <<>> ELSE <<Min(S)>> \o Ascending(S \ {Min(S)})

\* BTreeMap::range(from..=to) panics when from > to.
RangePanics(from, to) == from > to

\* Variant: the range that leaves out its lower end, from+1..=to.
RangeKeysAfter(map, from, to) == {k \in DOMAIN map : from < k /\ k <= to}
\* Variant: the half-open range from..to.
RangeKeysExclusive(map, from, to) == {k \in DOMAIN map : from <= k /\ k < to}
\* subscriptions_epoch.range(from..=to).map(|(k, _v)| *k)
RangeKeys(map, from, to) == {k \in DOMAIN map : from <= k /\ k <= to}

\* Variant: the entries are read and left in the map.
RemoveNone(map, keys) == map
\* BTreeMap::remove of the given keys.
RemoveKeys(map, keys) == [k \in (DOMAIN map) \ keys |-> map[k]]

\* The notifications of the given checkpoints, in the given order.
RECURSIVE NotifyCheckpoints(_, _)
NotifyCheckpoints(map, checkpoints) ==
    IF checkpoints = <<>> THEN <<>>
    ELSE NotifySingles(map[Head(checkpoints)], Head(checkpoints))
             \o NotifyCheckpoints(map, Tail(checkpoints))

\* entry(epoch).or_insert_with(Vec::new).push(subscription)
InsertSubscription(map, epoch, subscription) ==
    [k \in (DOMAIN map) \cup {epoch} |->
        IF k = epoch
        THEN Append(IF epoch \in DOMAIN map THEN map[epoch] ELSE <<>>, subscription)
        ELSE map[k]]

unwrap_or(opt, default) == IF opt.some THEN opt.v ELSE default

\* -------------------------------------------------------------- model bounds
StartSecs == 0
MaxConfigPeriod == 2
MaxSubs == 3
MaxTarget == 2
MaxNow == 10

\* The configured zero-point lies two seconds after the first wall time observed,
\* so configuration can arrive before or after it, and a timer armed for one
\* period before it can expire before it.
ConfigZeros == {StartSecs + 2}
ConfigPeriods == 0..MaxConfigPeriod
\* The wall clock runs to MaxNow, where the time elapsed since the zero-point no
\* longer fits the Epoch type. Subscriptions target the epochs 0..MaxTarget.
Targets == 0..MaxTarget
\* The wall clock is read on whole seconds: the sub-second part only lengthens
\* the delay of a timer by less than a second and changes no epoch.
NanoChoices == {0}

Now == [secs |-> now_secs, nanos |-> now_nanos]

\* What the latest firing did; `flip` changes at every firing.
NoFiring == [outcome |-> "none", flip |-> FALSE, prev |-> None, cur |-> 0]
Fired(outcome, prev, cur) ==
    [outcome |-> outcome, flip |-> ~firing.flip, prev |-> prev, cur |-> cur]

NoCall == [op |-> "none", arg |-> 0, res |-> Ok(0)]

\* How many of the notifications are for the subscription `id`.
RECURSIVE CountFor(_, _)
CountFor(msgs, id) ==
    IF msgs = <<>> THEN 0
    ELSE (IF Head(msgs).sub = id THEN 1 ELSE 0) + CountFor(Tail(msgs), id)

Deliver(msgs) ==
    [id \in DOMAIN delivered |->
        [kind |-> delivered[id].kind, n |-> delivered[id].n + CountFor(msgs, id)]]

\* The delivery records with one more subscription, of the given kind.
Registered(kind) ==
    [id \in 1..(next_id + 1) |->
        IF id <= next_id THEN delivered[id] ELSE [kind |-> kind, n |-> 0]]

\* Variant: the expired timer stays among the pending ones.
RemoveAtNone(seq, i) == seq
RemoveAt(seq, i) == [j \in 1..(Len(seq) - 1) |-> IF j < i THEN seq[j] ELSE seq[j + 1]]

\* ------------------------------------------------------------------- state
\* #[derive(Default)]: every field empty; the actor has not been configured.
Start ==
    /\ checkpoint_zero_timestamp = None
    /\ checkpoints_period = None
    /\ subscriptions_epoch = <<>>
    /\ subscriptions_all = <<>>
    /\ last_checked_epoch = None
    /\ now_secs = StartSecs
    /\ now_nanos = 0
    /\ timers = <<>>
    /\ panicked = FALSE
    /\ sent = <<>>
    /\ delivered = <<>>
    /\ next_id = 0
    /\ firing = NoFiring
    /\ call = NoCall

\* checkpoint_monitor's call of ctx.run_later, for an actor whose configuration
\* is (zero, period) and whose pending timers are `pending`.
Arm(zero, period, pending) ==
    LET delay == MonitorDelay(zero, period, now_secs, now_nanos) IN
    IF delay.tag = "Panic"
    THEN /\ panicked' = TRUE
         /\ timers' = pending
    ELSE /\ panicked' = FALSE
         /\ timers' = Append(pending, AddTime(Now, delay.val))

\* process_config: the configuration arrives (once, when the actor starts).
ProcessConfig(zero, period) ==
    /\ ~panicked
    /\ ~checkpoint_zero_timestamp.some
    /\ checkpoint_zero_timestamp' = Some(zero)
    /\ checkpoints_period' = Some(ClampPeriod(period))
    /\ Arm(Some(zero), Some(ClampPeriod(period)), timers)
    /\ UNCHANGED <<subscriptions_epoch, subscriptions_all, last_checked_epoch,
                   overflow_checks, now_secs, now_nanos, sent, delivered, next_id,
                   firing, call>>

\* Handler of SubscribeEpoch: a single-epoch subscription is registered.
SubscribeEpoch(epoch) ==
    /\ ~panicked
    /\ next_id < MaxSubs
    /\ next_id' = next_id + 1
    /\ subscriptions_epoch' =
           InsertSubscription(subscriptions_epoch, epoch,
                              [id |-> next_id + 1, payload |-> TRUE])
    /\ delivered' = Registered("single")
    /\ UNCHANGED <<checkpoint_zero_timestamp, checkpoints_period, subscriptions_all,
                   last_checked_epoch, overflow_checks, now_secs, now_nanos, timers,
                   panicked, sent, firing, call>>

\* Handler of SubscribeAll: an all-epochs subscription is registered.
SubscribeAll ==
    /\ ~panicked
    /\ next_id < MaxSubs
    /\ next_id' = next_id + 1
    /\ subscriptions_all' = Append(subscriptions_all, [id |-> next_id + 1, payload |-> TRUE])
    /\ delivered' = Registered("all")
    /\ UNCHANGED <<checkpoint_zero_timestamp, checkpoints_period, subscriptions_epoch,
                   last_checked_epoch, overflow_checks, now_secs, now_nanos, timers,
                   panicked, sent, firing, call>>

\* The wall clock advances (by any amount: the process may be suspended). It never
\* goes back, and the timers of run_later are measured on the same clock.
Tick(secs, nanos) ==
    /\ secs <= MaxNow
    /\ ~TimeLeq([secs |-> secs, nanos |-> nanos], Now)
    /\ now_secs' = secs
    /\ now_nanos' = nanos
    /\ UNCHANGED <<checkpoint_zero_timestamp, checkpoints_period, subscriptions_epoch,
                   subscriptions_all, last_checked_epoch, overflow_checks, timers,
                   panicked, sent, delivered, next_id, firing, call>>

\* The closure checkpoint_monitor gave to run_later runs: timer i has expired.
Fire(i) ==
    /\ ~panicked
    /\ i \in 1..Len(timers)
    /\ TimeLeq(timers[i], Now)
    /\ LET pending == RemoveAt(timers, i)
           epoch == current_epoch(checkpoint_zero_timestamp, checkpoints_period)
           from == unwrap_or(last_checked_epoch, 0)
       IN
       IF epoch.tag = "Err" THEN
           \* Err(_) => return
           /\ timers' = pending
           /\ sent' = <<>>
           /\ firing' = Fired("aborted", last_checked_epoch, 0)
           /\ UNCHANGED <<subscriptions_epoch, last_checked_epoch, delivered, panicked>>
       ELSE IF epoch.tag = "Panic" THEN
           /\ timers' = pending
           /\ sent' = <<>>
           /\ panicked' = TRUE
           /\ firing' = Fired("panicked", last_checked_epoch, 0)
           /\ UNCHANGED <<subscriptions_epoch, last_checked_epoch, delivered>>
       ELSE IF RangePanics(from, epoch.val) THEN
           \* the all-epochs notifications are out when range() panics
           /\ timers' = pending
           /\ sent' = NotifyAll(subscriptions_all, epoch.val)
           /\ delivered' = Deliver(NotifyAll(subscriptions_all, epoch.val))
           /\ panicked' = TRUE
           /\ firing' = Fired("panicked", last_checked_epoch, epoch.val)
           /\ UNCHANGED <<subscriptions_epoch, last_checked_epoch>>
       ELSE
           LET epoch_checkpoints ==
                   Ascending(RangeKeys(subscriptions_epoch, from, epoch.val))
               msgs == NotifyAll(subscriptions_all, epoch.val)
                           \o NotifyCheckpoints(subscriptions_epoch, epoch_checkpoints)
           IN
           /\ sent' = msgs
           /\ delivered' = Deliver(msgs)
           /\ subscriptions_epoch' =
                  RemoveKeys(subscriptions_epoch,
                             RangeKeys(subscriptions_epoch, from, epoch.val))
           /\ last_checked_epoch' = Some(epoch.val)
           /\ firing' = Fired("ok", last_checked_epoch, epoch.val)
           /\ Arm(checkpoint_zero_timestamp, checkpoints_period, pending)
    /\ UNCHANGED <<checkpoint_zero_timestamp, checkpoints_period, subscriptions_all,
                   overflow_checks, now_secs, now_nanos, next_id, call>>

\* The node runs a build without overflow checks (the release profile); the wall
\* times of the model stay far from the ends of i64 either way.
Init == Start /\ overflow_checks = FALSE

Next ==
    \/ \E zero \in ConfigZeros, period \in ConfigPeriods : ProcessConfig(zero, period)
    \/ \E epoch \in Targets : SubscribeEpoch(epoch)
    \/ SubscribeAll
    \/ \E secs \in StartSecs..MaxNow, nanos \in NanoChoices : Tick(secs, nanos)
    \/ \E i \in 1..Len(timers) : Fire(i)

Spec == Init /\ [][Next]_vars

\* ------------------------------------------------- the clock methods, called
\* set_checkpoint_zero
SetCheckpointZero(timestamp) ==
    /\ checkpoint_zero_timestamp' = Some(timestamp)
    /\ call' = [op |-> "set_checkpoint_zero", arg |-> timestamp, res |-> Ok(0)]
    /\ UNCHANGED <<checkpoints_period, subscriptions_epoch, subscriptions_all,
                   last_checked_epoch, overflow_checks, now_secs, now_nanos, timers,
                   panicked, sent, delivered, next_id, firing>>

\* set_period
SetPeriod(period) ==
    /\ checkpoints_period' = Some(ClampPeriod(period))
    /\ call' = [op |-> "set_period", arg |-> period, res |-> Ok(0)]
    /\ UNCHANGED <<checkpoint_zero_timestamp, subscriptions_epoch, subscriptions_all,
                   last_checked_epoch, overflow_checks, now_secs, now_nanos, timers,
                   panicked, sent, delivered, next_id, firing>>

\* epoch_at(&self, timestamp) is called: &self, so no field changes.
CallEpochAt(timestamp) ==
    /\ call' = [op |-> "epoch_at", arg |-> timestamp,
                res |-> epoch_at(checkpoint_zero_timestamp, checkpoints_period, timestamp)]
    /\ UNCHANGED <<checkpoint_zero_timestamp, checkpoints_period, subscriptions_epoch,
                   subscriptions_all, last_checked_epoch, overflow_checks, now_secs,
                   now_nanos, timers, panicked, sent, delivered, next_id, firing>>

\* epoch_timestamp(&self, epoch) is called.
CallEpochTimestamp(epoch) ==
    /\ call' = [op |-> "epoch_timestamp", arg |-> epoch,
                res |-> epoch_timestamp(checkpoint_zero_timestamp, checkpoints_period, epoch)]
    /\ UNCHANGED <<checkpoint_zero_timestamp, checkpoints_period, subscriptions_epoch,
                   subscriptions_all, last_checked_epoch, overflow_checks, now_secs,
                   now_nanos, timers, panicked, sent, delivered, next_id, firing>>

ClockNext ==
    \/ \E timestamp \in I64 : SetCheckpointZero(timestamp)
    \/ \E period \in U16 : SetPeriod(period)
    \/ \E timestamp \in I64 : CallEpochAt(timestamp)
    \/ \E epoch \in Epoch : CallEpochTimestamp(epoch)

\* The clock methods are checked over the whole of i64, in both build profiles.
ClockInit == Start /\ overflow_checks \in BOOLEAN

ClockSpec == ClockInit /\ [][ClockNext]_vars

\* --------------------------------------- time_to_next_checkpoint, called
\* The sub-second part of a reading of the wall clock: the start of a second,
\* just after it, and just before the next one.
WallNanos == {0, 1, NanosPerSec - 1}

\* time_to_next_checkpoint(&self) is called: get_timestamp_nanos() reads the wall
\* clock (now_secs, now_nanos); &self, so no field changes.
CallTimeToNextCheckpoint ==
    /\ call' = [op |-> "time_to_next_checkpoint", arg |-> now_secs,
                res |-> time_to_next_checkpoint(checkpoint_zero_timestamp,
                                                checkpoints_period, now_secs, now_nanos)]
    /\ UNCHANGED <<checkpoint_zero_timestamp, checkpoints_period, subscriptions_epoch,
                   subscriptions_all, last_checked_epoch, overflow_checks, now_secs,
                   now_nanos, timers, panicked, sent, delivered, next_id, firing>>

\* A manager with any configuration or none, in either build profile, at any
\* reading of the wall clock.
TimerInit ==
    /\ checkpoint_zero_timestamp \in {None} \cup {Some(zero) : zero \in I64}
    /\ checkpoints_period \in {None} \cup {Some(ClampPeriod(period)) : period \in U16}
    /\ overflow_checks \in BOOLEAN
    /\ now_secs \in I64
    /\ now_nanos \in WallNanos
    /\ subscriptions_epoch = <<>>
    /\ subscriptions_all = <<>>
    /\ last_checked_epoch = None
    /\ timers = <<>>
    /\ panicked = FALSE
    /\ sent = <<>>
    /\ delivered = <<>>
    /\ next_id = 0
    /\ firing = NoFiring
    /\ call = NoCall

TimerNext == CallTimeToNextCheckpoint

TimerSpec == TimerInit /\ [][TimerNext]_vars

\* ---------------------------------------------------------------- properties
\* A step in which the timer's closure ran.
FiringStep == firing'.flip # firing.flip
\* A firing that computed the current epoch and ran to its end.
SuccessfulFiring == FiringStep /\ firing'.outcome = "ok"

IsSingle(msg) == msg.kind = "single"
IsAll(msg) == msg.kind = "all"

\* The positions of the notifications for subscription `id` among `msgs`.
SentTo(msgs, id) == {i \in 1..Len(msgs) : msgs[i].sub = id}

\* The subscription `id` is in the registry of single-epoch subscriptions.
InRegistry(map, id) ==
    \E k \in DOMAIN map : \E j \in 1..Len(map[k]) : map[k][j].id = id

\* C1: at a successful firing with current epoch c and previous
\* last_checked_epoch p (0 when unset), every single-epoch subscription registered
\* for an epoch in [p, c] gets exactly one notification in that firing, the
\* single-epoch notifications go out in ascending order of target epoch, and
\* afterwards the registry has no key in [p, c].
C1_CatchUpCompleteness ==
    [][SuccessfulFiring =>
        LET p == unwrap_or(last_checked_epoch, 0)
            c == last_checked_epoch'.v
            singles == SelectSeq(sent', IsSingle)
        IN /\ \A k \in DOMAIN subscriptions_epoch :
                  (p <= k /\ k <= c) =>
                      \A j \in 1..Len(subscriptions_epoch[k]) :
                          /\ Cardinality(SentTo(sent', subscriptions_epoch[k][j].id)) = 1
                          /\ \E i \in 1..Len(sent') :
                                 sent'[i] = Notification(subscriptions_epoch[k][j].id,
                                                         "single", k)
           /\ \A i, j \in 1..Len(singles) :
                  i < j => singles[i].checkpoint <= singles[j].checkpoint
           /\ \A k \in DOMAIN subscriptions_epoch' : ~(p <= k /\ k <= c)
    ]_vars

\* The first firing finds subscriptions for the epochs 0, 1 and 2 while the
\* current epoch is already 3, and delivers 0, then 1, then 2.
C1_Witness ==
    /\ firing.outcome = "ok"
    /\ ~firing.prev.some
    /\ firing.cur = 3
    /\ Len(sent) = 3
    /\ \A i \in 1..3 : sent[i].kind = "single" /\ sent[i].checkpoint = i - 1
    /\ subscriptions_epoch = <<>>

\* C2: a single-epoch subscription is notified at most once over the whole run,
\* and once notified it is no longer in the registry.
C2_NoDoubleDelivery ==
    \A id \in DOMAIN delivered :
        delivered[id].kind = "single" =>
            /\ delivered[id].n <= 1
            /\ delivered[id].n = 1 => ~InRegistry(subscriptions_epoch, id)

\* A single-epoch subscription was notified by an earlier firing, and a later
\* successful firing has sent it nothing.
C2_Witness ==
    /\ firing.outcome = "ok"
    /\ firing.prev.some
    /\ \E id \in DOMAIN delivered :
           /\ delivered[id].kind = "single"
           /\ delivered[id].n = 1
           /\ SentTo(sent, id) = {}

\* C3: a single-epoch subscription in the registry is delivered, exactly once, by
\* the first successful firing whose current epoch is at least its target epoch,
\* whenever it was registered.
C3_DeliveredOnceReached ==
    [][SuccessfulFiring =>
        \A k \in DOMAIN subscriptions_epoch :
            k <= last_checked_epoch'.v =>
                \A j \in 1..Len(subscriptions_epoch[k]) :
                    /\ Cardinality(SentTo(sent', subscriptions_epoch[k][j].id)) = 1
                    /\ ~InRegistry(subscriptions_epoch', subscriptions_epoch[k][j].id)
    ]_vars

\* C4: a successful firing sends every all-epochs subscription exactly one
\* notification, every all-epochs notification carries the firing's current epoch
\* (none is sent for a skipped epoch), and no firing removes an all-epochs
\* subscription.
C4_AllEpochPersistence ==
    [][FiringStep =>
        /\ subscriptions_all' = subscriptions_all
        /\ SuccessfulFiring =>
               /\ \A j \in 1..Len(subscriptions_all) :
                      Cardinality(SentTo(sent', subscriptions_all[j].id)) = 1
               /\ \A i \in 1..Len(sent') :
                      IsAll(sent'[i]) => sent'[i].checkpoint = last_checked_epoch'.v
    ]_vars

\* A firing that comes several epochs after the previous one has sent the one
\* all-epochs subscription a single notification, for the current epoch.
C4_Witness ==
    /\ firing.outcome = "ok"
    /\ firing.prev.some
    /\ firing.cur > firing.prev.v + 1
    /\ Len(subscriptions_all) = 1
    /\ sent = <<Notification(subscriptions_all[1].id, "all", firing.cur)>>
    /\ delivered[subscriptions_all[1].id].n >= 2

\* C5: once the configuration has arrived a timer is pending after every handler
\* (the scheduler is back in Armed after every firing), also after a firing whose
\* current epoch could not be computed.
C5_AlwaysRearmed ==
    (checkpoint_zero_timestamp.some /\ ~panicked) => Len(timers) >= 1

\* C6: epoch_at is monotonic over the timestamps at or after the zero-point.
C6_Monotonic ==
    (/\ call.op = "epoch_at"
     /\ call.res.tag = "Ok"
     /\ call.arg >= checkpoint_zero_timestamp.v)
    => \A t1 \in I64 :
           (checkpoint_zero_timestamp.v <= t1 /\ t1 <= call.arg) =>
               LET r1 == epoch_at(checkpoint_zero_timestamp, checkpoints_period, t1)
               IN r1.tag = "Ok" => r1.val <= call.res.val

\* C7: a timestamp t at or after the zero-point with epoch_at(t) = e lies in
\* [epoch_timestamp(e), epoch_timestamp(e + 1)) whenever both exist.
C7_Bucketing ==
    (/\ call.op = "epoch_at"
     /\ call.res.tag = "Ok"
     /\ call.arg >= checkpoint_zero_timestamp.v
     /\ call.res.val + 1 <= EpochMax)
    => LET lo == epoch_timestamp(checkpoint_zero_timestamp, checkpoints_period,
                                 call.res.val)
           hi == epoch_timestamp(checkpoint_zero_timestamp, checkpoints_period,
                                 call.res.val + 1)
       IN (lo.tag = "Ok" /\ hi.tag = "Ok") =>
              (lo.val <= call.arg /\ call.arg < hi.val)

\* C8: when epoch_timestamp(e) succeeds, epoch_at of its result succeeds and is e.
C8_RoundTrip ==
    (call.op = "epoch_timestamp" /\ call.res.tag = "Ok")
    => epoch_at(checkpoint_zero_timestamp, checkpoints_period, call.res.val)
           = Ok(call.arg)

\* epoch_timestamp succeeded for an epoch other than 0, a period other than 1 and
\* a zero-point other than 0.
C8_Witness ==
    /\ call.op = "epoch_timestamp"
    /\ call.res.tag = "Ok"
    /\ call.arg > 1
    /\ checkpoints_period.v > 1
    /\ checkpoint_zero_timestamp.v # 0

\* C9: with zero-point and period set, epoch_timestamp(e) is Ok of exactly
\* period * e + zero or it is Overflow, and it is Overflow whenever the product
\* does not fit Epoch or the sum does not fit i64.
C9_OverflowDetection ==
    (/\ call.op = "epoch_timestamp"
     /\ checkpoint_zero_timestamp.some
     /\ checkpoints_period.some)
    => LET product == checkpoints_period.v * call.arg
           exact == product + checkpoint_zero_timestamp.v
       IN /\ call.res = Ok(exact) \/ call.res = Overflow
          /\ (product > EpochMax \/ exact \notin I64) => call.res = Overflow

\* epoch_timestamp returned Overflow for a product that fits Epoch: the sum with
\* the zero-point is what did not fit.
C9_Witness ==
    /\ call.op = "epoch_timestamp"
    /\ checkpoint_zero_timestamp.some
    /\ checkpoints_period.some
    /\ call.res = Overflow
    /\ call.arg > 0
    /\ checkpoints_period.v * call.arg <= EpochMax

\* C10: the clock methods return UnknownEpochZero without a zero-point,
\* UnknownCheckpointPeriod with a zero-point and without a period, and epoch_at
\* returns CheckpointZeroInTheFuture(zero) for every timestamp before the
\* zero-point; the call changes no field of the actor.
C10_ClockErrors ==
    [][(call' # call /\ call'.op \in {"epoch_at", "epoch_timestamp"}) =>
        /\ ~checkpoint_zero_timestamp.some => call'.res = UnknownEpochZero
        /\ (checkpoint_zero_timestamp.some /\ ~checkpoints_period.some)
               => call'.res = UnknownCheckpointPeriod
        /\ (/\ call'.op = "epoch_at"
            /\ checkpoint_zero_timestamp.some
            /\ checkpoints_period.some
            /\ call'.arg < checkpoint_zero_timestamp.v)
               => call'.res = CheckpointZeroInTheFuture(checkpoint_zero_timestamp.v)
        /\ UNCHANGED <<checkpoint_zero_timestamp, checkpoints_period,
                       subscriptions_epoch, subscriptions_all, last_checked_epoch>>
    ]_vars

\* C11: set_period(0) stores the period 1 and set_period(p) with p >= 1 stores p,
\* so the stored period is unset or at least 1, never 0.
C11_ZeroClamping ==
    /\ checkpoints_period.some => checkpoints_period.v >= 1
    /\ call.op = "set_period" =>
           checkpoints_period = Some(IF call.arg = 0 THEN 1 ELSE call.arg)

\* set_period(0) was called and the stored period is 1.
C11_Witness ==
    /\ call.op = "set_period"
    /\ call.arg = 0
    /\ checkpoints_period = Some(1)


\* C12: when time_to_next_checkpoint succeeds at wall time (now_secs, now_nanos)
\* with current epoch e, its result is (epoch_timestamp(e + 1) - now_secs) seconds
\* plus (1_000_000_000 - now_nanos) nanoseconds, which is more than nothing, and
\* the wall time plus the result is not before the start of epoch e + 1; when e + 1
\* does not fit Epoch or epoch_timestamp(e + 1) is before now_secs, it returns
\* Overflow.
C12_NeverEarly ==
    call.op = "time_to_next_checkpoint" =>
        LET e == epoch_at(checkpoint_zero_timestamp, checkpoints_period, now_secs)
            next == epoch_timestamp(checkpoint_zero_timestamp, checkpoints_period,
                                    e.val + 1)
            d == call.res.val
        IN /\ call.res.tag = "Ok" =>
                  /\ e.tag = "Ok"
                  /\ e.val + 1 <= EpochMax
                  /\ next.tag = "Ok"
                  /\ d.nanos < NanosPerSec
                  /\ d.secs - (next.val - now_secs) \in {0, 1}
                  /\ (d.secs - (next.val - now_secs)) * NanosPerSec + d.nanos
                         = NanosPerSec - now_nanos
                  /\ d.secs > 0 \/ d.nanos > 0
                  /\ TimeLeq([secs |-> next.val, nanos |-> 0], AddTime(Now, d))
           /\ (/\ e.tag = "Ok"
               /\ \/ e.val + 1 > EpochMax
                  \/ next.tag = "Ok" /\ next.val - now_secs < 0)
                  => call.res = Overflow

\* time_to_next_checkpoint succeeded in the middle of a second, more than a
\* second before the next checkpoint.
C12_Witness ==
    /\ call.op = "time_to_next_checkpoint"
    /\ call.res.tag = "Ok"
    /\ now_nanos > 0
    /\ call.res.val.secs > 1


\* C13: when the timer fires and the current epoch cannot be computed, the firing
\* sends no notification to any subscriber, removes no entry from the registry
\* and leaves last_checked_epoch as it was.
C13_AbortedFiring ==
    [][(/\ FiringStep
        /\ epoch_at(checkpoint_zero_timestamp, checkpoints_period, now_secs).tag = "Err")
       => /\ sent' = <<>>
          /\ delivered' = delivered
          /\ subscriptions_epoch' = subscriptions_epoch
          /\ subscriptions_all' = subscriptions_all
          /\ last_checked_epoch' = last_checked_epoch
    ]_vars

\* The latest firing was aborted, with an all-epochs subscription and a
\* subscription for epoch 0 registered, and nothing has been delivered.
C13_Witness ==
    /\ firing.outcome = "aborted"
    /\ Len(subscriptions_all) > 0
    /\ 0 \in DOMAIN subscriptions_epoch
    /\ \A id \in DOMAIN delivered : delivered[id].n = 0


\* A step in which checkpoint_monitor ran: the configuration arrived, or a firing
\* ran to its end.
ArmingStep ==
    \/ ~checkpoint_zero_timestamp.some /\ checkpoint_zero_timestamp'.some
    \/ SuccessfulFiring

\* C14: every arming step (at the arrival of the configuration and at the end of
\* a firing) arms exactly one timer, for time_to_next_checkpoint() when that
\* succeeds and otherwise, on CheckpointZeroInTheFuture or Overflow, for one
\* period in seconds; the step does not fail and leaves a timer pending.
C14_ArmingFallback ==
    [][ArmingStep =>
        LET d == time_to_next_checkpoint(checkpoint_zero_timestamp',
                                         checkpoints_period', now_secs, now_nanos)
            armed == timers'[Len(timers')]
        IN /\ ~panicked'
           /\ Len(timers') >= 1
           /\ Len(timers') = Len(timers) + (IF SuccessfulFiring THEN 0 ELSE 1)
           /\ d.tag = "Ok" => armed = AddTime(Now, d.val)
           /\ d.tag # "Ok" =>
                  /\ d.err \in {"CheckpointZeroInTheFuture", "Overflow"}
                  /\ armed = [secs |-> now_secs + checkpoints_period'.v,
                              nanos |-> now_nanos]
    ]_vars

\* A firing at the last epoch of the Epoch type has just armed the timer for one
\* period, time_to_next_checkpoint being Overflow.
C14_Witness ==
    /\ firing.outcome = "ok"
    /\ time_to_next_checkpoint(checkpoint_zero_timestamp, checkpoints_period,
                               now_secs, now_nanos) = Overflow
    /\ timers = <<[secs |-> now_secs + checkpoints_period.v, nanos |-> now_nanos]>>


\* C15: last_checked_epoch starts unset; only a firing that ran to its end changes
\* it (no registration and no configuration does), and after such a firing it is
\* the current epoch the firing computed.
C15_LastCheckedEpoch ==
    /\ last_checked_epoch = None
    /\ [][LET now_epoch == epoch_at(checkpoint_zero_timestamp, checkpoints_period,
                                    now_secs)
          IN /\ last_checked_epoch' # last_checked_epoch => SuccessfulFiring
             /\ SuccessfulFiring =>
                    /\ now_epoch.tag = "Ok"
                    /\ last_checked_epoch' = Some(now_epoch.val)
       ]_vars

\* A firing has moved last_checked_epoch from one epoch to a later one.
C15_Witness ==
    /\ firing.outcome = "ok"
    /\ firing.prev.some
    /\ firing.prev.v < firing.cur
    /\ last_checked_epoch = Some(firing.cur)


\* The epoch under which the subscription `id` is registered in `map`.
TargetOf(map, id) ==
    CHOOSE k \in DOMAIN map : \E j \in 1..Len(map[k]) : map[k][j].id = id

\* C16: every single-epoch notification of a firing carries the target epoch its
\* subscription was registered for, also when the firing's current epoch is a
\* later one, and every all-epochs notification of the firing carries the
\* firing's current epoch.
C16_CheckpointValue ==
    [][SuccessfulFiring =>
        \A i \in 1..Len(sent') :
            /\ IsSingle(sent'[i]) =>
                   /\ InRegistry(subscriptions_epoch, sent'[i].sub)
                   /\ sent'[i].checkpoint = TargetOf(subscriptions_epoch, sent'[i].sub)
            /\ IsAll(sent'[i]) => sent'[i].checkpoint = firing'.cur
    ]_vars

\* A firing at epoch 2 that followed an earlier one has sent a single-epoch
\* notification with checkpoint 1 and an all-epochs notification with
\* checkpoint 2.
C16_Witness ==
    /\ firing.outcome = "ok"
    /\ firing.prev.some
    /\ firing.cur = 2
    /\ \E i, j \in 1..Len(sent) :
           /\ IsSingle(sent[i]) /\ sent[i].checkpoint = 1
           /\ IsAll(sent[j]) /\ sent[j].checkpoint = 2


\* C17: a single-epoch subscription that is in the registry, at a firing that
\* runs through, under the epoch equal to last_checked_epoch (so it was
\* registered after the firing that set last_checked_epoch) is delivered by this
\* firing, with that epoch as its checkpoint, and removed.
C17_InclusiveLowerBound ==
    [][(/\ SuccessfulFiring
        /\ last_checked_epoch.some
        /\ last_checked_epoch.v \in DOMAIN subscriptions_epoch)
       => /\ \A j \in 1..Len(subscriptions_epoch[last_checked_epoch.v]) :
                 \E i \in 1..Len(sent') :
                     sent'[i] = Notification(subscriptions_epoch[last_checked_epoch.v][j].id,
                                             "single", last_checked_epoch.v)
          /\ last_checked_epoch.v \notin DOMAIN subscriptions_epoch'
    ]_vars

\* The latest firing has sent a single-epoch notification whose checkpoint is the
\* value last_checked_epoch had before it, the epoch the firing before it
\* observed; an earlier firing has delivered another single-epoch subscription.
C17_Witness ==
    /\ firing.outcome = "ok"
    /\ firing.prev.some
    /\ \E i \in 1..Len(sent) :
           /\ IsSingle(sent[i])
           /\ sent[i].checkpoint = firing.prev.v
    /\ \E id \in DOMAIN delivered :
           /\ delivered[id].kind = "single"
           /\ delivered[id].n = 1
           /\ SentTo(sent, id) = {}


\* C18: at most one checkpoint timer is pending in every reachable state, and none
\* before the configuration has arrived.
C18_SinglePendingTimer ==
    /\ Len(timers) <= 1
    /\ ~checkpoint_zero_timestamp.some => timers = <<>>

\* A firing has consumed the pending timer and armed the next one, which is the
\* only one pending.
C18_Witness ==
    /\ firing.outcome = "ok"
    /\ firing.prev.some
    /\ Len(timers) = 1
    /\ ~TimeLeq(timers[1], Now)


\* C19: the current epoch of every firing that runs through is greater than the
\* one of the firing before it: last_checked_epoch strictly increases from one
\* such firing to the next, and no epoch is the current one of two firings.
C19_Progress ==
    [][(SuccessfulFiring /\ last_checked_epoch.some)
       => last_checked_epoch'.v > last_checked_epoch.v
    ]_vars


\* C20: in the notifications of one firing no all-epochs notification comes after
\* a single-epoch one, and the single-epoch subscriptions registered for one
\* epoch are each notified, in the order of their registration: as many
\* notifications with that checkpoint as registrations, none merged.
C20_OrderInFiring ==
    [][SuccessfulFiring =>
        /\ \A i, j \in 1..Len(sent') :
               (i < j /\ IsSingle(sent'[i])) => IsSingle(sent'[j])
        /\ \A k \in DOMAIN subscriptions_epoch :
               k \notin DOMAIN subscriptions_epoch' =>
                   LET WithCheckpoint(msg) == IsSingle(msg) /\ msg.checkpoint = k
                       for_k == SelectSeq(sent', WithCheckpoint)
                   IN /\ Len(for_k) = Len(subscriptions_epoch[k])
                      /\ \A j \in 1..Len(for_k) :
                             for_k[j].sub = subscriptions_epoch[k][j].id
    ]_vars

\* A firing has sent an all-epochs notification first and then the notifications
\* of two subscriptions for the same epoch, the one registered earlier first.
C20_Witness ==
    /\ firing.outcome = "ok"
    /\ Len(sent) = 3
    /\ IsAll(sent[1])
    /\ IsSingle(sent[2])
    /\ IsSingle(sent[3])
    /\ sent[2].checkpoint = sent[3].checkpoint
    /\ sent[2].sub < sent[3].sub


====
